---- MODULE Spec2Model ----
(***************************************************************************)
(* BreakFree habit tracker (src/app.py): the streak calculation            *)
(* calculate_streak and the add_entry / edit_entry / delete_entry request  *)
(* handlers over the entries table.                                        *)
(*                                                                         *)
(* A calendar date is its day ordinal (an integer; consecutive calendar    *)
(* days differ by 1).  A date string as stored in the entries table is a   *)
(* record [day, time]: the "%Y-%m-%d" part and an optional time-of-day     *)
(* suffix ("" when the string carries none).  date.today() is taken to     *)
(* return the same day at every read inside one call of calculate_streak.  *)
(***************************************************************************)
EXTENDS Integers, Sequences, FiniteSets, TLC

\* ---- bounds of the model ------------------------------------------------
MaxDay == 7       \* one-entry-per-day histories range over days 1..MaxDay
MaxEntries == 3   \* arbitrary entry sequences have at most this many entries
MaxDupDay == 2    \* ... with dates among days 1..MaxDupDay
LongSlack == 1    \* long runs have Lookback-LongSlack .. Lookback+LongSlack days
MaxReqs == 2      \* concurrent add_entry requests
MaxClock == 2     \* the clock runs over days 1..MaxClock
MaxRows == 3      \* rows ever inserted into the entries table
NumHabits == 2    \* the logged-in user's habits are 1..NumHabits

\* ---- program constant -----------------------------------------------------
Lookback == 365   \* for _ in range(365)

VARIABLES
    entries,          \* argument of calculate_streak: sequence of rows
    today,            \* date.today() during the call
    pc,               \* position inside calculate_streak
    day_status,       \* defaultdict(lambda: True): its explicit keys and values
    all_entry_dates,  \* set of dates
    sorted_days,      \* sorted(all_entry_dates)
    longest_streak,
    current_streak,
    day_to_check,
    iter,             \* number of completed iterations of "for _ in range(365)"
    result,           \* returned pair <<current_streak, longest_streak>>
    table,            \* the entries table: set of rows
    next_id,          \* AUTOINCREMENT id of the next inserted row
    clock,            \* the system clock's current day
    req               \* per request: position in add_entry and its locals

calcvars == <<entries, today, pc, day_status, all_entry_dates, sorted_days,
              longest_streak, current_streak, day_to_check, iter, result>>
webvars == <<table, next_id, clock, req>>
vars == <<entries, today, pc, day_status, all_entry_dates, sorted_days,
          longest_streak, current_streak, day_to_check, iter, result,
          table, next_id, clock, req>>

\* ---- helpers --------------------------------------------------------------
Max(a, b) == IF a >= b THEN a ELSE b

SetMin(S) == CHOOSE x \in S : \A y \in S : x <= y

\* datetime.strptime(e['date'].split()[0], "%Y-%m-%d").date(): the time-of-day
\* suffix is dropped, the calendar day is kept
ParseDate(s) == s.day

\* datetime.today().strftime("%Y-%m-%d"): a date string without time of day
FormatDate(d) == [day |-> d, time |-> ""]

\* day_status[k] = v on the defaultdict
SetKey(ds, k, v) == (k :> v) @@ ds

\* day_status[k] read on the defaultdict: the default factory gives True ...
DefaultGet(ds, k) == IF k \in DOMAIN ds THEN ds[k] ELSE TRUE

\* ... and the read stores the default under a missing key
DefaultTouch(ds, k) == IF k \in DOMAIN ds THEN ds ELSE SetKey(ds, k, TRUE)

SetMax(S) == CHOOSE x \in S : \A y \in S : x >= y

\* the members of S within lo..hi in ascending order
RECURSIVE SortedRange(_, _, _)
SortedRange(S, lo, hi) ==
    IF lo > hi THEN <<>>
    ELSE IF lo = hi THEN (IF lo \in S THEN <<lo>> ELSE <<>>)
    ELSE LET mid == (lo + hi) \div 2
         IN  SortedRange(S, lo, mid) \o SortedRange(S, mid + 1, hi)

\* sorted(all_entry_dates)
Sorted(S) == IF S = {} THEN <<>> ELSE SortedRange(S, SetMin(S), SetMax(S))

\* ---- calculate_streak: status folding (lines 50-60) -----------------------
\* faulty variant: the last entry of a date decides its status
FoldBody_LastWins(st, e) ==
    LET date_obj == ParseDate(e.date)
    IN  [day_status |-> SetKey(st.day_status, date_obj, e.success # 0),
         all_entry_dates |-> st.all_entry_dates \cup {date_obj}]

\* body of "for e in entries"
FoldBody(st, e) ==
    LET date_obj == ParseDate(e.date)
    IN  [day_status |-> IF e.success = 0
                        THEN SetKey(st.day_status, date_obj, FALSE)
                        ELSE st.day_status,
         all_entry_dates |-> st.all_entry_dates \cup {date_obj}]

\* The loops below run over an index range split in two halves, the first half
\* before the second; "left = left" has the first half evaluated to a value
\* before the second starts.

\* the loop over es[lo..hi], in order, from the state st
RECURSIVE FoldEntries(_, _, _, _)
FoldEntries(es, lo, hi, st) ==
    IF lo > hi THEN st
    ELSE IF lo = hi THEN FoldBody(st, es[lo])
    ELSE LET mid == (lo + hi) \div 2
             left == FoldEntries(es, lo, mid, st)
         IN  IF left = left THEN FoldEntries(es, mid + 1, hi, left) ELSE st

EmptyStatus == [day_status |-> <<>>, all_entry_dates |-> {}]

\* ---- calculate_streak: longest streak (lines 67-83) -----------------------
\* prev_day is <<>> for None and <<d>> for the date d
\* faulty variant: a failure day does not reset current_longest
LongestBody_NoReset(st, day) ==
    LET ds == DefaultTouch(st.day_status, day)
    IN  IF DefaultGet(st.day_status, day)
        THEN LET cl == IF st.prev_day # <<>> /\ day - st.prev_day[1] = 1
                       THEN st.current_longest + 1
                       ELSE 1
             IN  [longest_streak |-> Max(st.longest_streak, cl),
                  current_longest |-> cl,
                  prev_day |-> <<day>>,
                  day_status |-> ds]
        ELSE [st EXCEPT !.prev_day = <<day>>, !.day_status = ds]

\* faulty variant: no test that day is the day after prev_day
LongestBody_CarryGap(st, day) ==
    LET ds == DefaultTouch(st.day_status, day)
    IN  IF DefaultGet(st.day_status, day)
        THEN LET cl == IF st.prev_day # <<>>
                       THEN st.current_longest + 1
                       ELSE 1
             IN  [longest_streak |-> Max(st.longest_streak, cl),
                  current_longest |-> cl,
                  prev_day |-> <<day>>,
                  day_status |-> ds]
        ELSE [st EXCEPT !.current_longest = 0, !.prev_day = <<day>>,
                        !.day_status = ds]

\* body of "for day in sorted_days"
LongestBody(st, day) ==
    LET ds == DefaultTouch(st.day_status, day)
    IN  IF DefaultGet(st.day_status, day)
        THEN LET cl == IF st.prev_day # <<>> /\ day - st.prev_day[1] = 1
                       THEN st.current_longest + 1
                       ELSE 1
             IN  [longest_streak |-> Max(st.longest_streak, cl),
                  current_longest |-> cl,
                  prev_day |-> <<day>>,
                  day_status |-> ds]
        ELSE [st EXCEPT !.current_longest = 0, !.prev_day = <<day>>,
                        !.day_status = ds]

\* the loop over sd[lo..hi], in order, from the state st
RECURSIVE LongestLoop(_, _, _, _)
LongestLoop(sd, lo, hi, st) ==
    IF lo > hi THEN st
    ELSE IF lo = hi THEN LongestBody(st, sd[lo])
    ELSE LET mid == (lo + hi) \div 2
             left == LongestLoop(sd, lo, mid, st)
         IN  IF left = left THEN LongestLoop(sd, mid + 1, hi, left) ELSE st

LongestInit(ds) ==
    [longest_streak |-> 0, current_longest |-> 0, prev_day |-> <<>>,
     day_status |-> ds]

\* ---- calculate_streak: current streak (lines 86-110) ----------------------
\* lines 106-110, reached when the body did not break
\* faulty variant: "<" for "<=" in the earliest-date stop
ScanTail_Strict(st, sd) ==
    IF sd # <<>> /\ st.day_to_check < sd[1]
    THEN [st EXCEPT !.brk = TRUE]
    ELSE [st EXCEPT !.day_to_check = st.day_to_check - 1]

ScanTail(st, sd) ==
    IF sd # <<>> /\ st.day_to_check <= sd[1]
    THEN [st EXCEPT !.brk = TRUE]
    ELSE [st EXCEPT !.day_to_check = st.day_to_check - 1]

\* faulty variant: an unlogged day before today is skipped, not a break
ScanBody_SkipGap(st, ds, sd, td) ==
    LET d == st.day_to_check
    IN  IF d \in DOMAIN ds
        THEN IF ds[d]
             THEN ScanTail([st EXCEPT !.current_streak = st.current_streak + 1], sd)
             ELSE [st EXCEPT !.current_streak = 0, !.brk = TRUE]
        ELSE IF d = td THEN [st EXCEPT !.brk = TRUE]
             ELSE ScanTail(st, sd)

\* faulty variant: the earliest-date stop tested before the day is counted
ScanBody_StopFirst(st, ds, sd, td) ==
    LET d == st.day_to_check
    IN  IF sd # <<>> /\ d <= sd[1] THEN [st EXCEPT !.brk = TRUE]
        ELSE IF d \in DOMAIN ds
        THEN IF ds[d]
             THEN [st EXCEPT !.current_streak = st.current_streak + 1,
                             !.day_to_check = d - 1]
             ELSE [st EXCEPT !.current_streak = 0, !.brk = TRUE]
        ELSE [st EXCEPT !.brk = TRUE]

\* one iteration of "for _ in range(365)"; brk is TRUE when it ends in a break
ScanBody(st, ds, sd, td) ==
    LET d == st.day_to_check
    IN  IF d \in DOMAIN ds
        THEN IF ds[d]
             THEN ScanTail([st EXCEPT !.current_streak = st.current_streak + 1], sd)
             ELSE [st EXCEPT !.current_streak = 0, !.brk = TRUE]
        ELSE IF d < td THEN [st EXCEPT !.brk = TRUE]
             ELSE IF d = td THEN [st EXCEPT !.brk = TRUE]
             ELSE ScanTail(st, sd)

\* the iterations lo..hi-1 of the loop, in order, from the state st; a break
\* skips the iterations after it
RECURSIVE ScanLoop(_, _, _, _, _, _)
ScanLoop(st, lo, hi, ds, sd, td) ==
    IF lo >= hi \/ st.brk THEN st
    ELSE IF hi = lo + 1 THEN ScanBody(st, ds, sd, td)
    ELSE LET mid == (lo + hi) \div 2
             left == ScanLoop(st, lo, mid, ds, sd, td)
         IN  IF left = left THEN ScanLoop(left, mid, hi, ds, sd, td) ELSE st

ScanInit(td) == [current_streak |-> 0, day_to_check |-> td, brk |-> FALSE]

\* value returned for an empty argument (line 46) and for no dates (line 64)
\* faulty variant: "return 0" for "return 0, 0"
EmptyResult_Scalar == <<0>>

EmptyResult == <<0, 0>>

\* ---- calculate_streak as a function of its argument and of today ----------
CalculateStreak(es, td) ==
    IF es = <<>> THEN EmptyResult
    ELSE LET fs == FoldEntries(es, 1, Len(es), EmptyStatus)
             sd == Sorted(fs.all_entry_dates)
         IN  IF sd = <<>> THEN EmptyResult
             ELSE LET ls == LongestLoop(sd, 1, Len(sd), LongestInit(fs.day_status))
                      cs == ScanLoop(ScanInit(td), 0, Lookback, ls.day_status, sd, td)
                  IN  <<cs.current_streak, ls.longest_streak>>

\* ---- the arguments calculate_streak is called with ------------------------
Row(d, t, s) == [date |-> [day |-> d, time |-> t], success |-> s]

Reverse(q) == [k \in 1..Len(q) |-> q[Len(q) + 1 - k]]

\* dashboard(): SELECT * FROM entries WHERE habit_id = ? ORDER BY date DESC,
\* for a history with one row per logged day ("S" success, "F" failure)
HistoryRows(m) ==
    LET days == Reverse(Sorted({d \in DOMAIN m : m[d] # "none"}))
    IN  [k \in 1..Len(days) |->
            Row(days[k], "", IF m[days[k]] = "S" THEN 1 ELSE 0)]

Histories == [1..MaxDay -> {"none", "S", "F"}]

\* the date strings of the rows at even positions carry a time of day
TimeOfRow(k) == IF k % 2 = 0 THEN "08:15:00" ELSE ""

\* any rows in any order, several rows of one date included
AnyRows ==
    UNION {{[k \in 1..n |-> Row(f[k].day, TimeOfRow(k), f[k].success)] :
                f \in [1..n -> [day : 1..MaxDupDay, success : {0, 1}]]} :
           n \in 0..MaxEntries}

\* n success rows on the days 1..n, newest first
RunRows(n) == [k \in 1..n |-> Row(n + 1 - k, "", 1)]

LongRuns == (Lookback - LongSlack)..(Lookback + LongSlack)

NoRequests == [r \in 1..MaxReqs |-> [pc |-> "idle", habit_id |-> 0, success |-> 0]]

CalcIdle ==
    /\ day_status = <<>>
    /\ all_entry_dates = {}
    /\ sorted_days = <<>>
    /\ longest_streak = 0
    /\ current_streak = 0
    /\ day_to_check = 0
    /\ iter = 0
    /\ result = <<>>

WebIdle ==
    /\ table = {}
    /\ next_id = 1
    /\ clock = 1
    /\ req = NoRequests

\* calculate_streak(entries) is entered with some argument on some day
Init ==
    /\ \/ /\ entries \in {HistoryRows(m) : m \in Histories}
          /\ today \in 1..MaxDay
       \/ /\ entries \in AnyRows
          /\ today \in 1..(MaxDupDay + 1)
       \/ \E n \in LongRuns :
            /\ entries = RunRows(n)
            /\ today = n
    /\ pc = "start"
    /\ CalcIdle
    /\ WebIdle

\* ---- calculate_streak, step by step ---------------------------------------
\* lines 45-46: if not entries: return 0, 0
EmptyReturn ==
    /\ pc = "start"
    /\ entries = <<>>
    /\ result' = EmptyResult
    /\ pc' = "done"
    /\ UNCHANGED <<entries, today, day_status, all_entry_dates, sorted_days,
                   longest_streak, current_streak, day_to_check, iter>>
    /\ UNCHANGED webvars

\* lines 50-64: the status map, the set of dates and its sorted list
BuildStatus ==
    /\ pc = "start"
    /\ entries # <<>>
    /\ LET fs == FoldEntries(entries, 1, Len(entries), EmptyStatus)
           sd == Sorted(fs.all_entry_dates)
       IN  /\ day_status' = fs.day_status
           /\ all_entry_dates' = fs.all_entry_dates
           /\ sorted_days' = sd
           /\ IF sd = <<>>
              THEN result' = EmptyResult /\ pc' = "done"
              ELSE result' = result /\ pc' = "longest"
    /\ UNCHANGED <<entries, today, longest_streak, current_streak,
                   day_to_check, iter>>
    /\ UNCHANGED webvars

\* lines 67-87: the longest-streak loop, then the set-up of the backward scan
LongestStreak ==
    /\ pc = "longest"
    /\ LET ls == LongestLoop(sorted_days, 1, Len(sorted_days), LongestInit(day_status))
       IN  /\ longest_streak' = ls.longest_streak
           /\ day_status' = ls.day_status
    /\ current_streak' = ScanInit(today).current_streak
    /\ day_to_check' = ScanInit(today).day_to_check
    /\ iter' = 0
    /\ pc' = IF Lookback > 0 THEN "scan" ELSE "return"
    /\ UNCHANGED <<entries, today, all_entry_dates, sorted_days, result>>
    /\ UNCHANGED webvars

\* lines 90-110: one iteration of the backward scan, which examines day_to_check
ScanStep ==
    /\ pc = "scan"
    /\ LET st == ScanBody([current_streak |-> current_streak,
                           day_to_check |-> day_to_check, brk |-> FALSE],
                          day_status, sorted_days, today)
       IN  /\ current_streak' = st.current_streak
           /\ day_to_check' = st.day_to_check
           /\ iter' = iter + 1
           /\ pc' = IF st.brk \/ iter + 1 >= Lookback THEN "return" ELSE "scan"
    /\ UNCHANGED <<entries, today, day_status, all_entry_dates, sorted_days,
                   longest_streak, result>>
    /\ UNCHANGED webvars

\* line 112: return current_streak, longest_streak
Return ==
    /\ pc = "return"
    /\ result' = <<current_streak, longest_streak>>
    /\ pc' = "done"
    /\ UNCHANGED <<entries, today, day_status, all_entry_dates, sorted_days,
                   longest_streak, current_streak, day_to_check, iter>>
    /\ UNCHANGED webvars

Next ==
    \/ EmptyReturn
    \/ BuildStatus
    \/ LongestStreak
    \/ ScanStep
    \/ Return

Spec == Init /\ [][Next]_vars

\* ---- vocabulary of the properties, read off the argument itself -----------
DatesOf(es) == {ParseDate(es[k].date) : k \in DOMAIN es}

\* some row of day d reports failure
Failed(es, d) == \E k \in DOMAIN es : ParseDate(es[k].date) = d /\ es[k].success = 0

\* the days whose folded status is success: logged, and no row reports failure
SuccessDays(es) == {d \in DatesOf(es) : ~Failed(es, d)}

HasDuplicateDate(es) ==
    \E j, k \in DOMAIN es : j < k /\ ParseDate(es[j].date) = ParseDate(es[k].date)

\* es is exactly one success row on each of the n days ending on day td
ExactRun(es, n, td) ==
    /\ n >= 1
    /\ Len(es) = n
    /\ SuccessDays(es) = (td - n + 1)..td

\* length of the maximal run of success days that starts on day a
RunLength(S, a) == SetMin({e \in a..(SetMax(S) + 1) : e \notin S}) - a

\* length of the longest maximal run of consecutive success days, 0 if none
LongestRun(es) ==
    LET S == SuccessDays(es)
    IN  IF S = {} THEN 0
        ELSE SetMax({RunLength(S, a) : a \in {d \in S : d - 1 \notin S}})

\* the reorderings of n positions, for each n up to MaxEntries
Orderings ==
    [n \in 0..MaxEntries |->
        {p \in [1..n -> 1..n] : \A j, k \in 1..n : p[j] = p[k] => j = k}]

January2025 ==
    <<Row(1, "", 1), Row(2, "", 1), Row(3, "", 0), Row(4, "", 1)>>

\* ---- C1 -------------------------------------------------------------------
\* C1: when the backward scan meets a failure day f (every day after f up to
\* today is a success and f is within the lookback), the current streak is the
\* number of success days counted before it, today - f; and for 2025-01-01
\* success, 01-02 success, 01-03 failure, 01-04 success with today 01-04 the
\* result is (1, 2).
C1_FailureKeepsCountedDays ==
    pc = "done" =>
        /\ \A f \in DatesOf(entries) :
              ( /\ Failed(entries, f)
                /\ f <= today
                /\ today - f < Lookback
                /\ \A d \in (f + 1)..today : d \in SuccessDays(entries) )
              => result[1] = today - f
        /\ (\A k \in 1..4 : \E j \in DOMAIN entries : entries[j] = January2025[k])
           /\ Len(entries) = 4 /\ today = 4
           => result = <<1, 2>>

\* ---- C2 -------------------------------------------------------------------
\* C2: with no entry for today and successes on yesterday and the k-1 days
\* before it (the day before the run unlogged or a failure, k below the
\* lookback bound), the current streak is k.
C2_MissingTodayKeepsStreak ==
    pc = "done" =>
        \A k \in 1..Len(entries) :
            ( /\ k < Lookback
              /\ today \notin DatesOf(entries)
              /\ \A d \in (today - k)..(today - 1) : d \in SuccessDays(entries)
              /\ (today - k - 1) \notin SuccessDays(entries) )
            => result[1] = k

\* ---- C3 -------------------------------------------------------------------
\* C3 as stated: for every N >= 1, exactly N success entries on the N
\* consecutive days ending today give current_streak = longest_streak = N.
C3_RunOfAnyLength ==
    pc = "done" /\ ExactRun(entries, Len(entries), today)
        => result = <<Len(entries), Len(entries)>>

\* C3 amended: for every N with 1 <= N <= 365, exactly N success entries on
\* the N consecutive days ending today give current_streak = longest_streak = N.
C3_RunWithinLookback ==
    pc = "done" /\ ExactRun(entries, Len(entries), today) /\ Len(entries) <= Lookback
        => result = <<Len(entries), Len(entries)>>

C3_Witness ==
    /\ pc = "done"
    /\ ExactRun(entries, Lookback, today)
    /\ result = <<Lookback, Lookback>>

\* ---- C4 -------------------------------------------------------------------
\* C4: for every day d strictly before today without an entry, the current
\* streak of the entries equals the current streak of the entries plus one
\* failure entry on d.
C4_GapLikeFailure ==
    pc = "done" =>
        \A d \in (SetMin(DatesOf(entries) \cup {today}) - 2)..(today - 1) :
            d \notin DatesOf(entries)
            => CalculateStreak(Append(entries, Row(d, "", 0)), today)[1] = result[1]

\* ---- C5 -------------------------------------------------------------------
\* C5: when the entries are one per day on N consecutive days a..b, all
\* successes but one failure on a day f strictly inside, the two success runs
\* have lengths f-a and b-f, which sum to N-1, and longest_streak is the
\* larger of the two.
SplitRun(es, f) ==
    LET a == SetMin(DatesOf(es))
        b == SetMax(DatesOf(es))
    IN  /\ Failed(es, f)
        /\ Len(es) = b - a + 1
        /\ DatesOf(es) = a..b
        /\ a < f /\ f < b
        /\ SuccessDays(es) = (a..b) \ {f}

C5_FailureSplitsRun ==
    pc = "done" /\ entries # <<>> =>
        \A f \in DatesOf(entries) :
            SplitRun(entries, f) =>
                LET a == SetMin(DatesOf(entries))
                    b == SetMax(DatesOf(entries))
                IN  /\ (f - a) + (b - f) = Len(entries) - 1
                    /\ SuccessDays(entries) = (a..(f - 1)) \cup ((f + 1)..b)
                    /\ result[2] = Max(f - a, b - f)

C5_Witness ==
    /\ pc = "done"
    /\ Len(entries) >= 5
    /\ \E f \in DatesOf(entries) :
          /\ SplitRun(entries, f)
          /\ f - SetMin(DatesOf(entries)) >= 2
          /\ SetMax(DatesOf(entries)) - f >= 2
          /\ result[2] = 2

\* ---- C6 -------------------------------------------------------------------
\* C6: once the status map is built, an entry date's status is failure exactly
\* when some entry of that date has success = 0; and when several entries
\* share a date, every reordering of the entries gives the same two streaks.
C6_AnyFailureWinsInAnyOrder ==
    /\ pc \in {"longest", "done"} /\ entries # <<>> =>
          \A d \in all_entry_dates :
              (DefaultGet(day_status, d) = FALSE) <=> Failed(entries, d)
    /\ pc = "done" /\ HasDuplicateDate(entries) =>
          \A p \in Orderings[Len(entries)] :
              CalculateStreak([k \in 1..Len(entries) |-> entries[p[k]]], today) = result

\* a success row followed by a failure row of the same date, which is today
C6_Witness ==
    /\ pc = "done"
    /\ \E j, k \in DOMAIN entries :
          /\ j < k
          /\ ParseDate(entries[j].date) = today
          /\ ParseDate(entries[k].date) = today
          /\ entries[j].date # entries[k].date
          /\ entries[j].success = 1
          /\ entries[k].success = 0
    /\ day_status[today] = FALSE
    /\ result[1] = 0

\* ---- C7 -------------------------------------------------------------------
\* C7: with no entries the call takes its step from every value of today and
\* returns (0, 0).
C7_EmptyGivesZero ==
    entries = <<>> =>
        /\ pc = "start" => ENABLED EmptyReturn
        /\ pc = "done" => result = <<0, 0>>
        /\ pc \in {"start", "done"}

C7_Witness ==
    /\ entries = <<>>
    /\ pc = "done"
    /\ result = <<0, 0>>
    /\ today > 1

\* ---- C8 -------------------------------------------------------------------
\* C8: longest_streak is the length of the longest maximal run of consecutive
\* calendar days whose folded status is success (0 if there is none), whatever
\* today is.
C8_LongestIsLongestRun ==
    pc = "done" => result[2] = LongestRun(entries)

\* two success runs separated by an unlogged day, the later one after today
C8_Witness ==
    /\ pc = "done"
    /\ \E d \in SuccessDays(entries) :
          /\ d > today + 1
          /\ d - 1 \in SuccessDays(entries)
          /\ d - 2 \notin DatesOf(entries)
          /\ d - 3 \in SuccessDays(entries)
          /\ d + 1 \notin SuccessDays(entries)
    /\ result[2] = 2

\* ---- C9 -------------------------------------------------------------------
\* C9 as stated: the scan examines at most 365 days, never a day earlier than
\* the earliest recorded date, it always ends, and current_streak <= 365.
C9_ScanWithinHistory ==
    /\ iter <= Lookback
    /\ pc = "scan" => /\ iter < Lookback
                      /\ day_to_check >= sorted_days[1]
                      /\ ENABLED ScanStep
    /\ pc = "return" => ENABLED Return
    /\ pc = "done" /\ entries # <<>> => result[1] <= Lookback

\* C9 amended: the scan examines at most 365 days, never a day earlier than
\* the earliest recorded date other than today itself, it always ends, and
\* current_streak <= 365.
C9_ScanWithinHistoryOrToday ==
    /\ iter <= Lookback
    /\ pc = "scan" => /\ iter < Lookback
                      /\ day_to_check >= sorted_days[1] \/ day_to_check = today
                      /\ ENABLED ScanStep
    /\ pc = "return" => ENABLED Return
    /\ pc = "done" /\ entries # <<>> => result[1] <= Lookback

\* a run of successes longer than the lookback, ending today
C9_Witness ==
    /\ pc = "done"
    /\ Len(entries) > Lookback
    /\ ExactRun(entries, Len(entries), today)
    /\ iter = Lookback
    /\ result[1] = Lookback

\* ---- the request handlers over the entries table --------------------------
\* Each db.execute is one atomic step; the server runs requests in threads, so
\* the steps of different requests interleave.  The logged-in user owns the
\* habits 1..NumHabits; habit 0 stands for any habit_id that is not theirs.
InitWeb ==
    /\ entries = <<>>
    /\ today = 1
    /\ pc = "idle"
    /\ CalcIdle
    /\ WebIdle

InFlight == Cardinality({r \in 1..MaxReqs : req[r].pc = "insert"})

\* SELECT * FROM entries WHERE habit_id = ? AND date = ?
SelectEntry(h, date_str) == {x \in table : x.habit_id = h /\ x.date = date_str}

\* add_entry up to its SELECT (lines 277-303): the POST of request r for habit
\* h, with the form complete or not and the form's success value s
AddEntryCheck(r, h, complete, s) ==
    /\ req[r].pc = "idle"
    /\ next_id + InFlight <= MaxRows
    /\ IF h \notin 1..NumHabits
       THEN UNCHANGED req                        \* "Habit not found."
       ELSE IF ~complete
       THEN UNCHANGED req                        \* "Please fill in the form."
       ELSE IF SelectEntry(h, FormatDate(clock)) # {}
       THEN UNCHANGED req                        \* already logged today
       ELSE req' = [req EXCEPT ![r] = [pc |-> "insert", habit_id |-> h,
                                       success |-> s]]
    /\ UNCHANGED <<table, next_id, clock>>
    /\ UNCHANGED calcvars

\* add_entry's INSERT (lines 306-311), dated by a fresh read of the clock
AddEntryInsert(r) ==
    /\ req[r].pc = "insert"
    /\ table' = table \cup {[id |-> next_id, habit_id |-> req[r].habit_id,
                             date |-> FormatDate(clock),
                             success |-> req[r].success]}
    /\ next_id' = next_id + 1
    /\ req' = [req EXCEPT ![r] = NoRequests[r]]
    /\ UNCHANGED clock
    /\ UNCHANGED calcvars

\* delete_entry (lines 388-404)
DeleteEntry(entry_id) ==
    /\ \E x \in table : x.id = entry_id
    /\ table' = {x \in table : x.id # entry_id}
    /\ UNCHANGED <<next_id, clock, req>>
    /\ UNCHANGED calcvars

\* edit_entry's UPDATE (lines 411-442): success, mood and journal change, the
\* date does not
EditEntry(entry_id, s) ==
    /\ \E x \in table : x.id = entry_id
    /\ table' = {IF x.id = entry_id THEN [x EXCEPT !.success = s] ELSE x :
                 x \in table}
    /\ UNCHANGED <<next_id, clock, req>>
    /\ UNCHANGED calcvars

\* midnight passes
Tick ==
    /\ clock < MaxClock
    /\ clock' = clock + 1
    /\ UNCHANGED <<table, next_id, req>>
    /\ UNCHANGED calcvars

NextWeb ==
    \/ \E r \in 1..MaxReqs, h \in 0..NumHabits, complete \in BOOLEAN, s \in {0, 1} :
          AddEntryCheck(r, h, complete, s)
    \/ \E r \in 1..MaxReqs : AddEntryInsert(r)
    \/ \E id \in 1..MaxRows : DeleteEntry(id)
    \/ \E id \in 1..MaxRows, s \in {0, 1} : EditEntry(id, s)
    \/ Tick

SpecWeb == InitWeb /\ [][NextWeb]_vars

\* ---- C10 ------------------------------------------------------------------
\* C10: after any sequence of add_entry requests, concurrent ones included,
\* the entries table holds at most one entry per habit per calendar date.
C10_OneEntryPerHabitAndDate ==
    \A x, y \in table :
        x.habit_id = y.habit_id /\ ParseDate(x.date) = ParseDate(y.date) => x = y

\* ---- C11 ------------------------------------------------------------------
\* C11: for every argument and every today, the returned pair satisfies
\* 0 <= current_streak <= longest_streak <= number of distinct entry dates.
C11_StreaksOrdered ==
    pc = "done" =>
        /\ 0 <= result[1]
        /\ result[1] <= result[2]
        /\ result[2] <= Cardinality(DatesOf(entries))

\* a live current streak shorter than the longest one, itself shorter than
\* the number of logged days
C11_Witness ==
    /\ pc = "done"
    /\ 1 <= result[1]
    /\ result[1] < result[2]
    /\ result[2] < Cardinality(DatesOf(entries))

====
